---- MODULE Spec2Model ----
(***************************************************************************)
(* A model of statikomand's KomandParser (komand_parser.py): the grammar   *)
(* registry built by add_argument, the parser (parse) and the completion   *)
(* engine (do_complete).                                                   *)
(*                                                                         *)
(* A Python str is a sequence of one-character strings, so that s[0],      *)
(* s[:n], startswith and strip are computed on characters.  An optional    *)
(* value (label: str | None, a parsed attribute) is a sequence of length   *)
(* at most one: <<>> is None and <<v>> is the value v.  A completer is     *)
(* named by a string, "None" when there is none; what a completer returns  *)
(* is the user's business, so a call of it is kept as the pair of the      *)
(* completer and the word it was given.                                    *)
(***************************************************************************)
EXTENDS Integers, Sequences, FiniteSets, TLC

VARIABLES all_names_and_flags, flags, positionals, call, raised, arg_obj, matches

vars == <<all_names_and_flags, flags, positionals, call, raised, arg_obj, matches>>

registry == <<all_names_and_flags, flags, positionals>>

-----------------------------------------------------------------------------
(* Bounds of the model. *)

\* The most names one add_argument call of Spec passes.
MaxNames == 2

\* The most tokens of a line handed to parse or do_complete.
MaxTokens == 4

-----------------------------------------------------------------------------
(* The strings the model's inputs are made of. *)

EmptyTok == <<>>

P1 == <<"P", "1">>

FlagName == <<"f", "l", "a", "g">>

Force == <<"-", "-", "f", "o", "r", "c", "e">>

Flag == <<"-", "-", "f", "l", "a", "g">>

Fl == <<"-", "-", "f", "l">>

POS1 == <<"P", "O", "S", "1">>

None == <<>>

Some(v) == <<v>>

Range(s) == {s[i] : i \in 1..Len(s)}

SeqsUpTo(S, n) == UNION {[1..m -> S] : m \in 0..n}

-----------------------------------------------------------------------------
(* str operations. *)

\* s.startswith("-"); False on the empty string.
StartsWithDash(s) == Len(s) > 0 /\ s[1] = "-"

RECURSIVE LStrip(_)
LStrip(s) == IF StartsWithDash(s) THEN LStrip(Tail(s)) ELSE s

RECURSIVE RStrip(_)
RStrip(s) ==
    IF Len(s) > 0 /\ s[Len(s)] = "-" THEN RStrip(SubSeq(s, 1, Len(s) - 1)) ELSE s

\* s.strip("--"): every leading and trailing '-' is removed.
Strip(s) == RStrip(LStrip(s))

\* s[:n]
Prefix(s, n) == SubSeq(s, 1, IF n < Len(s) THEN n ELSE Len(s))

\* shlex.split(code) on lines made of plain characters, spaces and double
\* quotes: spaces outside quotes separate the tokens, and a token is its
\* characters without the quotes (which is how "" gives an empty token).
IsNotQuote(c) == c /= "\""

\* The place after the token that holds place i: the first space outside
\* quotes from there, or the end of the line.
RECURSIVE TokenEnd(_, _, _)
TokenEnd(code, i, in_quote) ==
    IF i > Len(code) THEN i
    ELSE IF code[i] = "\"" THEN TokenEnd(code, i + 1, ~in_quote)
    ELSE IF code[i] = " " /\ ~in_quote THEN i
    ELSE TokenEnd(code, i + 1, in_quote)

RECURSIVE ShlexScan(_, _, _)
ShlexScan(code, i, toks) ==
    IF i > Len(code) THEN toks
    ELSE IF code[i] = " " THEN ShlexScan(code, i + 1, toks)
    ELSE ShlexScan(code, TokenEnd(code, i, FALSE),
                   Append(toks, SelectSeq(SubSeq(code, i, TokenEnd(code, i, FALSE) - 1),
                                          IsNotQuote)))

shlex_split(code) == ShlexScan(code, 1, <<>>)

\* The text a user types for one token: the empty token needs quotes.
Typed(tok) == IF Len(tok) = 0 THEN <<"\"", "\"">> ELSE tok

RECURSIVE TypedLine(_)
TypedLine(toks) ==
    IF Len(toks) = 0 THEN <<>>
    ELSE IF Len(toks) = 1 THEN Typed(toks[1])
    ELSE Typed(toks[1]) \o <<" ">> \o TypedLine(Tail(toks))

-----------------------------------------------------------------------------
(* Exceptions and return values. *)

NoError == [type |-> "None", msg |-> "", name |-> None, expected |-> 0, got |-> 0]

ValueError(m, tok) ==
    [type |-> "ValueError", msg |-> m, name |-> tok, expected |-> 0, got |-> 0]

ArityError(m, e, g) ==
    [type |-> "ValueError", msg |-> m, name |-> None, expected |-> e, got |-> g]

IndexError == [type |-> "IndexError", msg |-> "", name |-> None, expected |-> 0, got |-> 0]

\* What a completion returns: None, a list of strings, or what the
\* completer returns for a word.
NoMatches == [kind |-> "None", items |-> <<>>, completer |-> "None", word |-> <<>>]

ListOf(items) == [kind |-> "list", items |-> items, completer |-> "None", word |-> <<>>]

CompleterCall(c, w) == [kind |-> "call", items |-> <<>>, completer |-> c, word |-> w]

NoCall == [op |-> "none", names |-> <<>>, completer |-> "None", label |-> None, code |-> <<>>]

EmptyObj == <<>>

-----------------------------------------------------------------------------
(* The argument model. *)

\* A KomandArg.do_complete that gives no answer (None) when the argument
\* has no completer.
KomandArg_do_complete_no_answer(arg, code) ==
    IF arg.completer = "None" THEN NoMatches ELSE CompleterCall(arg.completer, code)

\* KomandArg.do_complete
KomandArg_do_complete(arg, code) ==
    IF arg.completer = "None" THEN ListOf(<<>>) ELSE CompleterCall(arg.completer, code)

\* PositionalKomandArg.__init__
PositionalKomandArg(name, completer, label) ==
    [name |-> name,
     label |-> IF label = None THEN name ELSE label[1],
     completer |-> completer]

\* OptionalKomandArg.__init__: the aliases that make it raise.
OptionalKomandArgBad(flags_) == {k \in 1..Len(flags_) : flags_[k][1] /= "-"}

OptionalKomandArg(flags_, completer, label) ==
    [flags |-> flags_,
     label |-> IF label = None THEN Strip(flags_[1]) ELSE label[1],
     completer |-> completer]

Min(S) == CHOOSE x \in S : \A y \in S : x <= y

-----------------------------------------------------------------------------
(* KomandParser.__init__ *)

Init ==
    /\ all_names_and_flags = <<>>
    /\ flags = <<>>
    /\ positionals = <<>>
    /\ call = NoCall
    /\ raised = NoError
    /\ arg_obj = EmptyObj
    /\ matches = NoMatches

(* KomandParser.add_argument *)

AddRaises(name_or_flags_list) ==
    LET empties == {k \in 1..Len(name_or_flags_list) : Len(name_or_flags_list[k]) = 0}
        known == {k \in 1..Len(name_or_flags_list) :
                     name_or_flags_list[k] \in Range(all_names_and_flags)}
    IN  IF empties /= {}
        THEN ValueError("EmptyNameOrFlag", None)
        ELSE IF known /= {}
        THEN ValueError("AlreadyDefined", Some(name_or_flags_list[Min(known)]))
        ELSE IF Len(name_or_flags_list) = 0
        THEN IndexError
        ELSE IF name_or_flags_list[1][1] = "-"
        THEN IF OptionalKomandArgBad(name_or_flags_list) /= {}
             THEN ValueError("HeterogenousNameOrFlags",
                     Some(name_or_flags_list[Min(OptionalKomandArgBad(name_or_flags_list))]))
             ELSE NoError
        ELSE IF Len(name_or_flags_list) > 1
             THEN ValueError("OnlyOneNameForPositional", None)
             ELSE NoError

add_argument(name_or_flags, completer, label) ==
    /\ call' = [op |-> "add_argument", names |-> name_or_flags,
                completer |-> completer, label |-> label, code |-> <<>>]
    /\ raised' = AddRaises(name_or_flags)
    /\ arg_obj' = EmptyObj
    /\ matches' = NoMatches
    /\ IF AddRaises(name_or_flags).type /= "None"
       THEN UNCHANGED registry
       ELSE IF name_or_flags[1][1] = "-"
       THEN /\ flags' = Append(flags, OptionalKomandArg(name_or_flags, completer, label))
            /\ all_names_and_flags' = all_names_and_flags \o name_or_flags
            /\ UNCHANGED positionals
       ELSE /\ positionals' =
                  Append(positionals, PositionalKomandArg(name_or_flags[1], completer, label))
            /\ all_names_and_flags' = Append(all_names_and_flags, name_or_flags[1])
            /\ UNCHANGED flags

-----------------------------------------------------------------------------
(* KomandParser.find_flag_with_name: the exception it raises, or the flag. *)

NoFlag == [flags |-> <<>>, label |-> <<>>, completer |-> "None"]

\* The flags, in declaration order, that have flag_name among their aliases.
FlagsNamed(flag_name) == {i \in 1..Len(flags) : flag_name \in Range(flags[i].flags)}

\* A find_flag_with_name that knows a flag by its first alias only.
find_flag_by_first_alias(flag_name) ==
    IF Len(flag_name) = 0
    THEN [raised |-> IndexError, flag |-> NoFlag]
    ELSE IF flag_name[1] /= "-"
    THEN [raised |-> ValueError("UnexpectedName", Some(flag_name)), flag |-> NoFlag]
    ELSE IF \E i \in 1..Len(flags) : flags[i].flags[1] = flag_name
    THEN [raised |-> NoError,
          flag |-> flags[Min({i \in 1..Len(flags) : flags[i].flags[1] = flag_name})]]
    ELSE [raised |-> ValueError("UnknownFlag", Some(flag_name)), flag |-> NoFlag]

find_flag_with_name(flag_name) ==
    IF Len(flag_name) = 0
    THEN [raised |-> IndexError, flag |-> NoFlag]
    ELSE IF flag_name[1] /= "-"
    THEN [raised |-> ValueError("UnexpectedName", Some(flag_name)), flag |-> NoFlag]
    ELSE IF flag_name \notin Range(all_names_and_flags)
    THEN [raised |-> ValueError("UnknownFlag", Some(flag_name)), flag |-> NoFlag]
    ELSE IF FlagsNamed(flag_name) /= {}
    THEN [raised |-> NoError, flag |-> flags[Min(FlagsNamed(flag_name))]]
    ELSE [raised |-> ValueError("UnknownFlag", Some(flag_name)), flag |-> NoFlag]

(* KomandParser.parse *)

\* arg_obj.__setattr__(label, value)
SetAttr(obj, label, value) ==
    IF label \in DOMAIN obj
    THEN [obj EXCEPT ![label] = value]
    ELSE obj @@ (label :> value)

\* Every flag's label set to None, in declaration order.
RECURSIVE FlagDefaults(_, _)
FlagDefaults(i, obj) ==
    IF i > Len(flags) THEN obj
    ELSE FlagDefaults(i + 1, SetAttr(obj, flags[i].label, None))

\* The loop over the components that binds the positionals; i is the
\* 1-based place of the component looked at.
RECURSIVE BindPositionals(_, _, _, _)
BindPositionals(components, i, positional_idx, obj) ==
    IF i > Len(components)
    THEN [raised |-> NoError, positional_idx |-> positional_idx, obj |-> obj]
    ELSE IF StartsWithDash(components[i])
    THEN IF positional_idx < Len(positionals)
         THEN [raised |-> ArityError("InsufficientPositionals",
                                     Len(positionals), positional_idx),
               positional_idx |-> positional_idx, obj |-> obj]
         ELSE [raised |-> NoError, positional_idx |-> positional_idx, obj |-> obj]
    ELSE IF positional_idx >= Len(positionals)
    THEN [raised |-> ArityError("TooManyPositionals",
                                Len(positionals), positional_idx + 1),
          positional_idx |-> positional_idx, obj |-> obj]
    ELSE BindPositionals(components, i + 1, positional_idx + 1,
                         SetAttr(obj, positionals[positional_idx + 1].label,
                                 Some(components[i])))

\* The loop over the (flag name, value) pairs; k is the 0-based index of
\* the flag name, as in range(positional_idx, len(components) - 1, 2).
RECURSIVE BindFlags(_, _, _)
BindFlags(components, k, obj) ==
    IF k >= Len(components) - 1
    THEN [raised |-> NoError, obj |-> obj]
    ELSE LET flag_name == components[k + 1]
             flag_param == components[k + 2]
             found == find_flag_with_name(flag_name)
         IN  IF found.raised.type /= "None"
             THEN [raised |-> found.raised, obj |-> obj]
             ELSE BindFlags(components, k + 2,
                            SetAttr(obj, found.flag.label, Some(flag_param)))

ParseResult(code) ==
    LET components == shlex_split(code)
        bound == BindPositionals(components, 1, 0, FlagDefaults(1, EmptyObj))
    IN  IF bound.raised.type /= "None"
        THEN [raised |-> bound.raised, obj |-> EmptyObj]
        ELSE BindFlags(components, bound.positional_idx, bound.obj)

parse(code) ==
    /\ call' = [op |-> "parse", names |-> <<>>, completer |-> "None",
                label |-> None, code |-> code]
    /\ \E r \in {ParseResult(code)} :
          /\ raised' = r.raised
          /\ arg_obj' = IF r.raised.type = "None" THEN r.obj ELSE EmptyObj
    /\ matches' = NoMatches
    /\ UNCHANGED registry

-----------------------------------------------------------------------------
(* KomandParser.do_complete_flag_name *)

\* A prefix test that leaves the word's last character out.
NameMatchesButLast(each_name, word) ==
    /\ each_name[1] = "-"
    /\ Len(each_name) >= Len(word)
    /\ Prefix(each_name, Len(word) - 1) = Prefix(word, Len(word) - 1)

\* The test of do_complete_flag_name's loop: each_name is a flag spelling
\* that starts with word.
NameMatches(each_name, word) ==
    /\ each_name[1] = "-"
    /\ Len(each_name) >= Len(word)
    /\ Prefix(each_name, Len(word)) = word

RECURSIVE FlagNameMatches(_, _, _)
FlagNameMatches(i, word, all_matches) ==
    IF i > Len(all_names_and_flags) THEN all_matches
    ELSE FlagNameMatches(i + 1, word,
             IF NameMatches(all_names_and_flags[i], word)
             THEN Append(all_matches, all_names_and_flags[i])
             ELSE all_matches)

do_complete_flag_name(word) == ListOf(FlagNameMatches(1, word, <<>>))

(* KomandParser.try_complete_flag_value *)

try_complete_flag_value(flag_name, word) ==
    IF flag_name \notin Range(all_names_and_flags)
    THEN NoMatches
    ELSE IF FlagsNamed(flag_name) = {}
    THEN NoMatches
    ELSE KomandArg_do_complete(flags[Min(FlagsNamed(flag_name))], word)

(* KomandParser.do_complete *)

\* The token the k-th step of the backward scan looks at:
\* splitted_code[last_word_rank - k], 0-based, for k in range(last_word_rank).
ScannedToken(splitted_code, k) == splitted_code[(Len(splitted_code) - 1 - k) + 1]

RECURSIVE ScanBack(_, _, _)
ScanBack(splitted_code, k, last_word) ==
    IF k >= Len(splitted_code) - 1
    THEN [raised |-> NoError, matches |-> NoMatches]
    ELSE LET this_token == ScannedToken(splitted_code, k)
         IN  IF Len(this_token) = 0
             THEN [raised |-> IndexError, matches |-> NoMatches]
             ELSE IF this_token[1] = "-"
                     /\ try_complete_flag_value(this_token, last_word).kind /= "None"
             THEN [raised |-> NoError,
                   matches |-> try_complete_flag_value(this_token, last_word)]
             ELSE ScanBack(splitted_code, k + 1, last_word)

CompleteResult(code) ==
    LET splitted_code == shlex_split(code)
        last_word == splitted_code[Len(splitted_code)]
        last_word_rank == Len(splitted_code) - 1
        scanned == ScanBack(splitted_code, 0, last_word)
    IN  IF Len(splitted_code) = 0
        THEN [raised |-> IndexError, matches |-> NoMatches]
        ELSE IF Len(last_word) = 0
        THEN [raised |-> IndexError, matches |-> NoMatches]
        ELSE IF last_word[1] = "-" /\ code[Len(code)] /= " "
        THEN [raised |-> NoError, matches |-> do_complete_flag_name(last_word)]
        ELSE IF scanned.raised.type /= "None" \/ scanned.matches.kind /= "None"
        THEN scanned
        ELSE IF last_word_rank >= Len(positionals)
        THEN [raised |-> NoError, matches |-> ListOf(<<>>)]
        ELSE [raised |-> NoError,
              matches |-> KomandArg_do_complete(positionals[last_word_rank + 1], last_word)]

do_complete(code) ==
    /\ call' = [op |-> "do_complete", names |-> <<>>, completer |-> "None",
                label |-> None, code |-> code]
    /\ \E r \in {CompleteResult(code)} :
          /\ raised' = r.raised
          /\ matches' = r.matches
    /\ arg_obj' = EmptyObj
    /\ UNCHANGED registry

-----------------------------------------------------------------------------
(* The specifications.  The program is synchronous and single-threaded: a  *)
(* call is made when no other is running (call.op = "none"), and the state *)
(* after it holds what it was given and what it returned or raised, until  *)
(* the caller is done with that and goes on (Return).                      *)

\* No call is running.
Idle == call.op = "none"

\* The caller drops the returned value or the exception and goes on.
Return ==
    /\ call.op /= "none"
    /\ call' = NoCall
    /\ raised' = NoError
    /\ arg_obj' = EmptyObj
    /\ matches' = NoMatches
    /\ UNCHANGED registry

\* The tokens of the lines handed to parse and do_complete.
LineTokens == {EmptyTok, POS1, Fl, Force, Flag}

Lines == {TypedLine(toks) : toks \in SeqsUpTo(LineTokens, MaxTokens)}

\* The names one call of Spec may pass.
RegTokens == {EmptyTok, P1, Force, Flag}

Register ==
    /\ Idle
    /\ \E names \in SeqsUpTo(RegTokens, MaxNames), label \in {None, Some(FlagName)} :
          add_argument(names, "None", label)

Next == Register \/ Return

\* The registry alone: every call add_argument can get.
Spec == Init /\ [][Next]_vars

\* The grammars parse is run against: two positionals (one of them spelled
\* like a flag's default label) and two flags, one of them also declared
\* with --force as a second alias.
ParseArgLists == {<<P1>>, <<FlagName>>, <<Force>>, <<Flag>>, <<Flag, Force>>}

RegisterForParse ==
    /\ Idle
    /\ \E names \in ParseArgLists : add_argument(names, "None", None)

Parse ==
    /\ Idle
    /\ \E code \in Lines : parse(code)

NextParse == RegisterForParse \/ Parse \/ Return

SpecParse == Init /\ [][NextParse]_vars

\* The grammars do_complete is run against: the positional P1, which has
\* a completer, and the flags --force and --flag, each declared with or
\* without a completer of its own.
CompleteArgLists == {<<P1>>, <<Force>>, <<Flag>>}

CompletersFor(names) ==
    IF names = <<P1>> THEN {"complete_P1"}
    ELSE IF names = <<Force>> THEN {"None", "complete_force"}
    ELSE {"None", "complete_flag"}

RegisterForComplete ==
    /\ Idle
    /\ \E names \in CompleteArgLists :
          \E completer \in CompletersFor(names) :
              add_argument(names, completer, None)

\* A raw line is the typed tokens, with or without a space after the last.
Complete ==
    /\ Idle
    /\ \E code \in Lines, trailing \in {<<>>, <<" ">>} : do_complete(code \o trailing)

NextComplete == RegisterForComplete \/ Complete \/ Return

SpecComplete == Init /\ [][NextComplete]_vars

-----------------------------------------------------------------------------
(* What the properties below read off a state.  toks stands for the tokens *)
(* of the line the last call was given.                                    *)

Tokens == shlex_split(call.code)

Last(toks) == toks[Len(toks)]

EndsInSpace == Len(call.code) > 0 /\ call.code[Len(call.code)] = " "

\* The number of non-dash tokens before the first dash-prefixed one.
LeadingNonDash(toks) ==
    IF \E i \in 1..Len(toks) : StartsWithDash(toks[i])
    THEN Min({i \in 1..Len(toks) : StartsWithDash(toks[i])}) - 1
    ELSE Len(toks)

IsAlias(tok) == \E i \in 1..Len(flags) : tok \in Range(flags[i].flags)

\* The flag an alias belongs to (the first declared, were there several).
FlagOf(tok) == flags[Min({i \in 1..Len(flags) : tok \in Range(flags[i].flags)})]

Returned == raised.type = "None"

\* The line's last token is not a flag name still being typed.
NotTypingFlagName(toks) ==
    /\ Len(toks) >= 1
    /\ Len(Last(toks)) > 0
    /\ ~(StartsWithDash(Last(toks)) /\ ~EndsInSpace)

-----------------------------------------------------------------------------
(* C1 *)

\* C1: parse of a line with c leading non-dash tokens against N declared
\* positionals fails with the insufficient-positionals error when c < N and
\* with the too-many-positionals error when c > N; it returns no result.
C1_ArityErrors ==
    call.op = "parse" =>
        \A c \in {LeadingNonDash(Tokens)} :
            /\ c < Len(positionals) => raised.msg = "InsufficientPositionals"
            /\ c > Len(positionals) => raised.msg = "TooManyPositionals"

-----------------------------------------------------------------------------
(* C2 *)

NoDuplicates(s) == \A i, j \in 1..Len(s) : i /= j => s[i] /= s[j]

\* C2: no name or alias is ever registered twice: all_names_and_flags holds
\* each token once, no token is an alias of two flags or twice an alias of
\* one, and a call that passes the same token twice fails.
C2_NoTokenTwice ==
    /\ NoDuplicates(all_names_and_flags)
    /\ \A i \in 1..Len(flags) : NoDuplicates(flags[i].flags)
    /\ \A i, j \in 1..Len(flags) :
          i /= j => Range(flags[i].flags) \cap Range(flags[j].flags) = {}
    /\ (call.op = "add_argument" /\ ~NoDuplicates(call.names))
          => raised.type = "ValueError"

-----------------------------------------------------------------------------
(* C3 *)

\* C3: when the raw line ends in whitespace and its last token is a flag's
\* alias that follows other tokens (as in "val1 --flag1 "), do_complete
\* returns what that flag's completer gives for the empty string (an empty
\* list when it has none): the flag token is not the word completed.
C3_EmptyFlagValue ==
    (call.op = "do_complete" /\ EndsInSpace) =>
        \A toks \in {Tokens} :
            (Len(toks) >= 2 /\ IsAlias(Last(toks)))
            => /\ Returned
               /\ matches = IF FlagOf(Last(toks)).completer = "None"
                            THEN ListOf(<<>>)
                            ELSE CompleterCall(FlagOf(Last(toks)).completer, EmptyTok)

-----------------------------------------------------------------------------
(* C4 *)

\* --force is declared before --flag, each a flag of its own, and there is
\* no other flag.
ForceThenFlag ==
    /\ Len(flags) = 2
    /\ flags[1].flags = <<Force>>
    /\ flags[2].flags = <<Flag>>

\* do_complete was given the line POS1 --fl.
C4_Line == call.op = "do_complete" /\ call.code = POS1 \o <<" ">> \o Fl

\* C4, as stated: with --force declared before --flag, do_complete of
\* "POS1 --fl" returns exactly [--force, --flag].
C4_Original ==
    (ForceThenFlag /\ C4_Line) => (Returned /\ matches = ListOf(<<Force, Flag>>))

\* C4, amended: with --force declared before --flag, do_complete of
\* "POS1 --fl" returns exactly [--flag], the one declared spelling that
\* starts with --fl, once.
C4_PrefixCompletion ==
    (ForceThenFlag /\ C4_Line) => (Returned /\ matches = ListOf(<<Flag>>))

C4_Witness == ForceThenFlag /\ C4_Line /\ Returned

-----------------------------------------------------------------------------
(* C5 *)

\* C5: do_complete of a line that has at least one token returns a list
\* and never raises.
C5_CompleteNeverRaises ==
    (call.op = "do_complete" /\ Len(Tokens) >= 1)
    => (Returned /\ matches.kind \in {"list", "call"})

-----------------------------------------------------------------------------
(* C6 *)

\* The line is exactly N non-dash tokens, then an alias, then a value.
C6_Line(toks) ==
    /\ Len(toks) = Len(positionals) + 2
    /\ \A i \in 1..Len(positionals) : ~StartsWithDash(toks[i])
    /\ IsAlias(toks[Len(positionals) + 1])

\* C6: parsing N non-dash tokens followed by an alias A of a flag and a
\* value v returns a result in which the flag's label maps to v, whichever
\* alias A is.
C6_FlagRoundTrip ==
    call.op = "parse" =>
        \A toks \in {Tokens} :
            C6_Line(toks) =>
                /\ Returned
                /\ \A i \in 1..Len(flags) :
                      toks[Len(positionals) + 1] \in Range(flags[i].flags)
                      => /\ flags[i].label \in DOMAIN arg_obj
                         /\ arg_obj[flags[i].label] = Some(toks[Len(positionals) + 2])

\* The flag is named by its second alias, after one positional.
C6_Witness ==
    /\ call.op = "parse"
    /\ C6_Line(Tokens)
    /\ Len(positionals) = 1
    /\ \E i \in 1..Len(flags) :
          /\ Len(flags[i].flags) = 2
          /\ Tokens[2] = flags[i].flags[2]
          /\ arg_obj[flags[i].label] = Some(POS1)

-----------------------------------------------------------------------------
(* C7 *)

\* The places of a line's flag names that have a value after them: the
\* first token after the N positionals and every second one from there.
FlagNamePlaces(toks) ==
    {p \in 1..(Len(toks) - 1) :
        p > Len(positionals) /\ (p - Len(positionals)) % 2 = 1}

UnknownPlaces(toks) == {p \in FlagNamePlaces(toks) : ~IsAlias(toks[p])}

\* C7: when the positional prefix is valid and a token at a flag-name place
\* (with a value after it) is no declared alias, parse fails with the error
\* find_flag_with_name raises for a name it does not know, naming the
\* first such token.
C7_UnknownFlagRaises ==
    call.op = "parse" =>
        \A toks \in {Tokens} :
            (LeadingNonDash(toks) = Len(positionals) /\ UnknownPlaces(toks) /= {})
            => /\ raised.type = "ValueError"
               /\ raised.msg \in {"UnknownFlag", "UnexpectedName"}
               /\ raised.name = Some(toks[Min(UnknownPlaces(toks))])

-----------------------------------------------------------------------------
(* C8 *)

\* C8: the backward scan goes from the token before the last down to the
\* first token: when the first token is the alias of a flag that has a
\* completer and no token between it and the last starts with a dash,
\* do_complete returns that completer's result for the last token.
C8_ScanReachesFirstToken ==
    call.op = "do_complete" =>
        \A toks \in {Tokens} :
            (/\ NotTypingFlagName(toks)
             /\ Len(toks) >= 2
             /\ ~StartsWithDash(Last(toks))
             /\ IsAlias(toks[1])
             /\ FlagOf(toks[1]).completer /= "None"
             /\ \A i \in 2..(Len(toks) - 1) :
                   Len(toks[i]) > 0 /\ ~StartsWithDash(toks[i]))
            => /\ Returned
               /\ matches = CompleterCall(FlagOf(toks[1]).completer, Last(toks))

-----------------------------------------------------------------------------
(* C9 *)

\* Place j holds the alias of a flag that has no completer, and it is the
\* first alias the scan, which starts at the last token, comes to.
NearestAliasHasNoCompleter(toks, j) ==
    /\ IsAlias(toks[j])
    /\ FlagOf(toks[j]).completer = "None"
    /\ \A i \in (j + 1)..Len(toks) : Len(toks[i]) > 0 /\ ~IsAlias(toks[i])

\* The line is A x B y: A the alias of a flag with a completer, B the alias
\* of a flag without one.
C9_Line(toks) ==
    /\ NotTypingFlagName(toks)
    /\ Len(toks) = 4
    /\ IsAlias(toks[1]) /\ FlagOf(toks[1]).completer /= "None"
    /\ Len(toks[2]) > 0 /\ ~StartsWithDash(toks[2])
    /\ IsAlias(toks[3]) /\ FlagOf(toks[3]).completer = "None"
    /\ Len(toks[4]) > 0 /\ ~StartsWithDash(toks[4])

\* C9, as stated: a flag without a completer gives no answer and the scan
\* goes on: for --a x --b y, do_complete returns what --a's completer gives
\* for y.
C9_Original ==
    call.op = "do_complete" =>
        \A toks \in {Tokens} :
            C9_Line(toks) =>
                /\ Returned
                /\ matches = CompleterCall(FlagOf(toks[1]).completer, toks[4])

\* C9, amended: a flag without a completer answers with the empty list and
\* the scan stops there: when the first alias the scan comes to is of a
\* flag without a completer, do_complete returns [].
C9_NoCompleterStopsScan ==
    call.op = "do_complete" =>
        \A toks \in {Tokens} :
            (/\ NotTypingFlagName(toks)
             /\ \E j \in 2..Len(toks) : NearestAliasHasNoCompleter(toks, j))
            => (Returned /\ matches = ListOf(<<>>))

C9_Witness ==
    /\ call.op = "do_complete"
    /\ C9_Line(Tokens)
    /\ Returned
    /\ matches = ListOf(<<>>)

-----------------------------------------------------------------------------
(* C10 *)

\* C10: when parse returns and all N positional slots were filled, the
\* result maps the label of the i-th positional to the i-th token.
C10_PositionalsKept ==
    (call.op = "parse" /\ Returned) =>
        \A toks \in {Tokens} :
            LeadingNonDash(toks) = Len(positionals)
            => \A i \in 1..Len(positionals) :
                  /\ positionals[i].label \in DOMAIN arg_obj
                  /\ arg_obj[positionals[i].label] = Some(toks[i])

====
